---- MODULE Spec2Model ----
(***************************************************************************)
(* Model of the Telegram -> Google Drive transfer pipeline of              *)
(* src/bot_render.py and src/bot_render_ram_optimized.py:                  *)
(* TelegramFileBot.handle_media, ._upload_large_file_streaming and         *)
(* GoogleDriveUploader.upload_chunked_file.                                *)
(*                                                                         *)
(* The two files are two builds of the same bot; `variant` says which one  *)
(* is deployed.  They differ in upload_chunked_file (retry loop, handling  *)
(* of a permission failure, wrapping of HttpError) and in the text of the  *)
(* failure message.                                                        *)
(*                                                                         *)
(* A handler is a coroutine: it runs until its next `await`, so one action *)
(* is one code segment ending in an awaited call (or, inside the           *)
(* synchronous upload_chunked_file, one call to the Drive client) together *)
(* with the outcome of that call.  Byte counts are in units of 4 MiB.      *)
(***************************************************************************)
EXTENDS Integers, FiniteSets, Sequences, TLC

\* ---------------------------------------------------------------- bounds
\* Largest staged file, in units of 4 MiB (5 units = 20 MiB).
MaxSize == 5
\* Most pushes one upload may have answered with zero newly confirmed bytes.
MaxStalls == 2

\* ------------------------------------------------------ program constants
\* chunksize=8*1024*1024, in units of 4 MiB.
ChunkSize == 2
\* A ceiling one too high.
max_attempts_OffByOne == 3 + 1

\* max_attempts = 3 (bot_render only).
max_attempts == 3

\* The retry ceiling the design states: three attempts.
RetryCeiling == 3

\* The handler instances the model can follow.  `requests` says which of
\* them receive an update; Spec follows a single update.
Transfers == {1, 2}
Variants == {"render", "ram"}

\* HTTP statuses a Drive call can fail with, and a failure that is no
\* HttpError at all (socket timeout, connection reset): status 0.
TransportError == 0
HttpStatuses == {400, 401, 403, 429, 500, 502, 503, 504}
FailureStatuses == HttpStatuses \cup {TransportError}

\* `if e.resp.status in [500, 502, 503, 504]` of bot_render's retry loop.
RetryStatuses == {500, 502, 503, 504}

NoExc == [kind |-> "none", status |-> 0]
Exc(k) == [kind |-> k, status |-> 0]
HttpError(s) == [kind |-> "HttpError", status |-> s]

VARIABLES
    variant,         \* which build runs: "render" or "ram"
    requests,        \* the updates (media messages) that arrive
    loopOwner,       \* the handler inside a synchronous call, 0 if none
    pc,              \* each handler's position
    temp_file_path,  \* TRUE once temp_file_path is assigned (not None)
    tempExists,      \* the temporary file is on disk
    stagedSize,      \* bytes in the temporary file
    file_size,       \* os.path.getsize(file_path) read by the upload
    cursor,          \* the request's resumable progress (confirmed bytes)
    upload_attempts, \* bot_render's failure counter
    response,        \* "none", "body" or "empty"
    accepted,        \* bytes the destination has appended to the object
    pushes,          \* pushes sent from the current cursor
    chunkFails,      \* failed pushes sent from the current cursor
    transFails,      \* failed pushes of the whole upload
    stalls,          \* pushes answered with zero newly confirmed bytes
    pushOffset,      \* the offset the last push was sent from, -1 if none
    lastStatus,      \* last next_chunk outcome: -1 none, 200 ok, else status
    permFailed,      \* permissions().create failed
    removeFailed,    \* os.remove failed
    linkOK,          \* files().get returned the link
    exc,             \* the exception being handled / in flight
    pending,         \* what propagates through finally: "none","exc","cancel"
    successMsgs,     \* 'Upload Successful' messages delivered
    failureMsgs,     \* 'Upload failed' / 'Unsupported' messages delivered
    outcome,         \* "none", "success", "failed", "cancelled"
    escaped,         \* what left handle_media: "none", "exc", "cancel"
    failedFrom,      \* the phase in which the transfer failed
    sizeDeclared,    \* file.file_size of the update: "unset","known","unknown"
    drained,         \* download_to_drive: "no","ok","failed","cancelled"
    sessionOpen,     \* upload_chunked_file built its create request
    linkFails,       \* files().get calls that failed
    linkStatus,      \* last files().get outcome: -1 none, 200 ok, else status
    reportedSize,    \* result['size'] shown by 'Upload Successful', -1 if none
    reportText,      \* text of the delivered failure report: "none", "quota",
                     \* "permission" or "own" (the exception's own message)
    reportWords,     \* which of "quota", "permission" str(e) contained
    cancelRequested, \* task.cancel() was called during the synchronous upload
    pushedAfterCancel, \* a push was sent after that call
    waited,          \* time slept since the last failed push (0: none)
    spin,            \* parity of the pushes sent with the stall counter full
    tracing,         \* the observer records the Drive calls in `calls`
    calls            \* the Drive calls of the upload, in order (if tracing)

vars == <<variant, requests, loopOwner, pc, temp_file_path, tempExists,
          stagedSize, file_size, cursor, upload_attempts, response, accepted,
          pushes, chunkFails, transFails, stalls, pushOffset, lastStatus,
          permFailed, removeFailed, linkOK, exc, pending, successMsgs, failureMsgs,
          outcome, escaped, failedFrom, sizeDeclared, drained, sessionOpen,
          linkFails, linkStatus, reportedSize, reportText, reportWords, cancelRequested,
          pushedAfterCancel, waited, spin, tracing, calls>>

\* Groups of variables, for UNCHANGED.
diskVars == <<temp_file_path, tempExists, stagedSize>>
uploadVars == <<file_size, cursor, upload_attempts, response, accepted,
                pushes, chunkFails, transFails, stalls, pushOffset,
                lastStatus, permFailed, linkOK>>
msgVars == <<successMsgs, failureMsgs>>
envVars == <<variant, requests>>

Set(f, t, v) == [f EXCEPT ![t] = v]

Min(a, b) == IF a < b THEN a ELSE b

\* The outcomes of an awaited Telegram call: it returns, it raises, or the
\* task is cancelled while it waits (asyncio.CancelledError).
AwaitOutcomes == {"ok", "fail", "cancel"}

\* A task whose cancellation was requested while it ran synchronous code
\* gets CancelledError at the first await it reaches.
Outcomes(t) == IF cancelRequested[t] THEN {"cancel"} ELSE AwaitOutcomes

\* One Drive call as the observer records it.
Push(offset, len) == [op |-> "push", offset |-> offset, len |-> len]
Call(op) == [op |-> op, offset |-> -1, len |-> -1]
Logged(t, call) == IF tracing THEN Set(calls, t, Append(calls[t], call))
                   ELSE calls

\* An upload handed to an executor and awaited: the event loop stays free.
CanRun_Always(t) == TRUE

\* The handler may run: no other handler is inside a synchronous call.
CanRun(t) == loopOwner \in {0, t}

\* ------------------------------------------------------------------ Init
\* The state before the update is handled, the observer's switch apart.
StartWith(updates) ==
    /\ variant \in Variants
    /\ requests = updates
    /\ loopOwner = 0
    /\ pc = [t \in Transfers |-> "idle"]
    /\ temp_file_path = [t \in Transfers |-> FALSE]
    /\ tempExists = [t \in Transfers |-> FALSE]
    /\ stagedSize = [t \in Transfers |-> 0]
    /\ file_size = [t \in Transfers |-> 0]
    /\ cursor = [t \in Transfers |-> 0]
    /\ upload_attempts = [t \in Transfers |-> 0]
    /\ response = [t \in Transfers |-> "none"]
    /\ accepted = [t \in Transfers |-> 0]
    /\ pushes = [t \in Transfers |-> 0]
    /\ chunkFails = [t \in Transfers |-> 0]
    /\ transFails = [t \in Transfers |-> 0]
    /\ stalls = [t \in Transfers |-> 0]
    /\ pushOffset = [t \in Transfers |-> -1]
    /\ lastStatus = [t \in Transfers |-> -1]
    /\ permFailed = [t \in Transfers |-> FALSE]
    /\ removeFailed = [t \in Transfers |-> FALSE]
    /\ linkOK = [t \in Transfers |-> FALSE]
    /\ exc = [t \in Transfers |-> NoExc]
    /\ pending = [t \in Transfers |-> "none"]
    /\ successMsgs = [t \in Transfers |-> 0]
    /\ failureMsgs = [t \in Transfers |-> 0]
    /\ outcome = [t \in Transfers |-> "none"]
    /\ escaped = [t \in Transfers |-> "none"]
    /\ failedFrom = [t \in Transfers |-> "none"]
    /\ sizeDeclared = [t \in Transfers |-> "unset"]
    /\ drained = [t \in Transfers |-> "no"]
    /\ sessionOpen = [t \in Transfers |-> FALSE]
    /\ linkFails = [t \in Transfers |-> 0]
    /\ linkStatus = [t \in Transfers |-> -1]
    /\ reportedSize = [t \in Transfers |-> -1]
    /\ reportText = [t \in Transfers |-> "none"]
    /\ reportWords = [t \in Transfers |-> {}]
    /\ cancelRequested = [t \in Transfers |-> FALSE]
    /\ pushedAfterCancel = [t \in Transfers |-> FALSE]
    /\ waited = [t \in Transfers |-> 0]
    /\ spin = [t \in Transfers |-> 0]
    /\ calls = [t \in Transfers |-> <<>>]

\* One media message arrives.
Start == StartWith({1})

Init == Start /\ tracing = FALSE

\* The same start with the Drive calls recorded.
InitTraced == Start /\ tracing = TRUE

\* ---------------------------------------------------------------- phases
\* The spec's state machine, read off the handler's position.
PhaseOfPc(p) ==
    CASE p = "idle" -> "Idle"
      [] p \in {"get_file", "mktemp"} -> "Staging"
      [] p \in {"edit_dl", "download"} -> "Downloading"
      [] p \in {"edit_ul", "upload_start", "next_chunk"} -> "Uploading"
      [] p \in {"permission", "get_link", "edit_ok"} -> "Finalizing"
      [] OTHER -> "Ended"

Phase(t) ==
    IF outcome[t] = "success" THEN "Completed"
    ELSE IF outcome[t] \in {"failed", "cancelled"} THEN "Failed"
    ELSE PhaseOfPc(pc[t])

\* ------------------------------------------- _upload_large_file_streaming
\* An exception raised inside the try block: control enters
\* `except Exception as e` (the failure report).
RaiseInTry(t, e) ==
    /\ pc' = Set(pc, t, "report")
    /\ exc' = Set(exc, t, e)
    /\ outcome' = Set(outcome, t, "failed")
    /\ failedFrom' = Set(failedFrom, t, Phase(t))
    /\ UNCHANGED pending

\* CancelledError raised at an await inside the try block or the except
\* block: it is no Exception, so only `finally` runs and it propagates.
CancelInTry(t) ==
    /\ pc' = Set(pc, t, "finally")
    /\ pending' = Set(pending, t, "cancel")
    /\ outcome' = Set(outcome, t, "cancelled")
    /\ failedFrom' = Set(failedFrom, t,
                         IF failedFrom[t] = "none" THEN Phase(t)
                         ELSE failedFrom[t])
    /\ UNCHANGED exc

\* An awaited call of the try block that, when it returns, leaves the
\* handler at position `next`.
AwaitInTry(t, o, next) ==
    CASE o = "ok" -> /\ pc' = Set(pc, t, next)
                     /\ UNCHANGED <<exc, pending, outcome, failedFrom>>
      [] o = "fail" -> RaiseInTry(t, Exc("TelegramError"))
      [] o = "cancel" -> CancelInTry(t)

\* ----------------------------------------------------------- handle_media
\* An exception raised in handle_media's own try block, outside
\* _upload_large_file_streaming: its `except Exception` replies.
RaiseInHandler(t, e) ==
    /\ pc' = Set(pc, t, "reply_fail")
    /\ exc' = Set(exc, t, e)
    /\ outcome' = Set(outcome, t, "failed")
    /\ failedFrom' = Set(failedFrom, t, Phase(t))

\* CancelledError in handle_media outside the inner try: nothing catches it.
CancelInHandler(t) ==
    /\ pc' = Set(pc, t, "done")
    /\ outcome' = Set(outcome, t, "cancelled")
    /\ escaped' = Set(escaped, t, "cancel")
    /\ failedFrom' = Set(failedFrom, t,
                         IF failedFrom[t] = "none" THEN Phase(t)
                         ELSE failedFrom[t])
    /\ UNCHANGED exc

\* handle_media up to the call of _upload_large_file_streaming.  Every
\* caller passes one of the six supported media types, so the `else` reply
\* is not reached.  `sizeKnown` is whether the incoming file carries a
\* file_size: `file.file_size / (1024 * 1024)` raises TypeError on None.
\* `o` is the outcome of the awaited reply_text calls (the large-file
\* notice and the processing message).
HandleMedia(t) ==
    /\ UNCHANGED <<drained, sessionOpen, linkFails, linkStatus, reportedSize,
                   reportText, reportWords, cancelRequested, pushedAfterCancel, waited, spin,
                   tracing, calls>>
    /\ t \in requests
    /\ CanRun(t)
    /\ pc[t] = "idle"
    /\ \E sizeKnown \in BOOLEAN, o \in AwaitOutcomes :
          /\ sizeDeclared' = Set(sizeDeclared, t,
                                 IF sizeKnown THEN "known" ELSE "unknown")
          /\ IF ~sizeKnown
             THEN /\ RaiseInHandler(t, Exc("TypeError"))
                  /\ UNCHANGED escaped
             ELSE CASE o = "ok" -> /\ pc' = Set(pc, t, "get_file")
                                   /\ UNCHANGED <<exc, outcome, escaped,
                                                  failedFrom>>
                    [] o = "fail" -> /\ RaiseInHandler(t,
                                                       Exc("TelegramError"))
                                     /\ UNCHANGED escaped
                    [] o = "cancel" -> CancelInHandler(t)
    /\ UNCHANGED <<envVars, loopOwner, diskVars, uploadVars, removeFailed,
                   pending, msgVars>>

\* telegram_file = await file.get_file()
GetFile(t) ==
    /\ UNCHANGED <<sizeDeclared, drained, sessionOpen, linkFails, linkStatus,
                   reportedSize, reportText, reportWords, cancelRequested,
                   pushedAfterCancel, waited, spin, tracing, calls>>
    /\ UNCHANGED escaped
    /\ CanRun(t)
    /\ pc[t] = "get_file"
    /\ \E o \in AwaitOutcomes : AwaitInTry(t, o, "mktemp")
    /\ UNCHANGED <<envVars, loopOwner, diskVars, uploadVars, removeFailed,
                   msgVars>>

\* with tempfile.NamedTemporaryFile(delete=False, ...): the file is created
\* and its name kept, or the creation raises OSError and no file exists.
CreateTemp(t) ==
    /\ UNCHANGED <<sizeDeclared, drained, sessionOpen, linkFails, linkStatus,
                   reportedSize, reportText, reportWords, cancelRequested,
                   pushedAfterCancel, waited, spin, tracing, calls>>
    /\ UNCHANGED escaped
    /\ CanRun(t)
    /\ pc[t] = "mktemp"
    /\ \/ /\ temp_file_path' = Set(temp_file_path, t, TRUE)
          /\ tempExists' = Set(tempExists, t, TRUE)
          /\ pc' = Set(pc, t, "edit_dl")
          /\ UNCHANGED <<exc, pending, outcome, failedFrom>>
       \/ /\ RaiseInTry(t, Exc("OSError"))
          /\ UNCHANGED <<temp_file_path, tempExists>>
    /\ UNCHANGED <<envVars, loopOwner, stagedSize, uploadVars, removeFailed,
                   msgVars>>

\* await processing_msg.edit_text("Downloading from Telegram...")
EditDownloading(t) ==
    /\ UNCHANGED <<sizeDeclared, drained, sessionOpen, linkFails, linkStatus,
                   reportedSize, reportText, reportWords, cancelRequested,
                   pushedAfterCancel, waited, spin, tracing, calls>>
    /\ UNCHANGED escaped
    /\ CanRun(t)
    /\ pc[t] = "edit_dl"
    /\ \E o \in AwaitOutcomes : AwaitInTry(t, o, "download")
    /\ UNCHANGED <<envVars, loopOwner, diskVars, uploadVars, removeFailed,
                   msgVars>>

\* A download wrapped in its own try/except that logs and goes on.
AfterDownload_Swallowed(t, o) ==
    AwaitInTry(t, IF o = "fail" THEN "ok" ELSE o, "edit_ul")

\* What follows the awaited download: the next statement of the try block,
\* or the except / finally blocks; the call is made once.
AfterDownload(t, o) == AwaitInTry(t, o, "edit_ul")

\* await telegram_file.download_to_drive(temp_file_path): the source's n
\* bytes are staged, or the download stops after some of them.
Download(t) ==
    /\ UNCHANGED <<sizeDeclared, sessionOpen, linkFails, linkStatus,
                   reportedSize, reportText, reportWords, cancelRequested,
                   pushedAfterCancel, waited, spin, tracing, calls>>
    /\ UNCHANGED escaped
    /\ CanRun(t)
    /\ pc[t] = "download"
    /\ \E n \in 0..MaxSize, o \in AwaitOutcomes :
          /\ stagedSize' = Set(stagedSize, t, n)
          /\ drained' = Set(drained, t,
                            CASE o = "ok" -> "ok"
                              [] o = "fail" -> "failed"
                              [] o = "cancel" -> "cancelled")
          /\ AfterDownload(t, o)
    /\ UNCHANGED <<envVars, loopOwner, temp_file_path, tempExists,
                   uploadVars, removeFailed, msgVars>>

\* await processing_msg.edit_text("Uploading to Google Drive...")
EditUploading(t) ==
    /\ UNCHANGED <<sizeDeclared, drained, sessionOpen, linkFails, linkStatus,
                   reportedSize, reportText, reportWords, cancelRequested,
                   pushedAfterCancel, waited, spin, tracing, calls>>
    /\ UNCHANGED escaped
    /\ CanRun(t)
    /\ pc[t] = "edit_ul"
    /\ \E o \in AwaitOutcomes : AwaitInTry(t, o, "upload_start")
    /\ UNCHANGED <<envVars, loopOwner, diskVars, uploadVars, removeFailed,
                   msgVars>>

\* ---------------------------------------------------- upload_chunked_file
\* The exception upload_chunked_file raises for an exception `e` caught by
\* its `except HttpError` / `except Exception` clauses.  bot_render wraps an
\* HttpError by status; bot_render_ram_optimized re-raises it.
Wrap(e) ==
    IF variant = "render" /\ e.kind = "HttpError"
    THEN CASE e.status = 403 -> Exc("PermissionDenied")
           [] e.status = 400 -> Exc("BadRequest")
           [] OTHER -> [kind |-> "ApiError", status |-> e.status]
    ELSE e

\* The exception a failed Drive call raises: HttpError, or another
\* exception when the failure is below HTTP.
DriveError(s) == IF s = TransportError THEN Exc("TransportError")
                 ELSE HttpError(s)

\* upload_chunked_file raises: the synchronous call ends and the caller's
\* `except Exception` takes over.
UploadRaise(t, e) ==
    /\ RaiseInTry(t, Wrap(e))
    /\ loopOwner' = 0

\* A retry test that also lets an authorization failure through.
IsRetryable_Also403(s) == variant = "render" /\ s \in RetryStatuses \cup {403}

\* A failed push is retried: only bot_render catches HttpError in the loop,
\* and only for these statuses.
IsRetryable(s) == variant = "render" /\ s \in RetryStatuses

\* `if upload_attempts >= max_attempts: raise`
Exhausted(attempts) == attempts >= max_attempts

\* An `if` in place of the `while`: one push, then the code after the loop.
LoopContinues_Once(attempts) == FALSE

\* The `while` condition of the upload loop, with response None.
LoopContinues(attempts) ==
    IF variant = "render" THEN attempts < max_attempts ELSE TRUE

\* An upload that takes any response of the last push for the file.
RejectsResponse_Never(r) == FALSE

\* `if not file: raise Exception("Upload failed - no response received")`
\* (bot_render only).
RejectsResponse(r) == variant = "render" /\ r # "body"

\* The failures after which the destination may nevertheless hold the
\* chunk: the acknowledgement was lost or replaced by a server error.
AmbiguousStatuses == {TransportError, 500, 502, 503, 504}

\* A push that always carries a whole chunk.
ChunkLen_NoClip(t) == ChunkSize

\* The bytes one push carries: a chunk, or what is left of the file.
ChunkLen(t) == Min(ChunkSize, file_size[t] - cursor[t])

\* A cursor that assumes the whole chunk was accepted.
Advance_FullChunk(c, k, len) == c + len

\* The cursor after a push of `len` bytes from cursor c of which the
\* destination confirmed k: the progress is the confirmed range's end.
Advance(c, k, len) == c + k

\* An upload that refuses an empty file before its first push.
UploadStart_RejectEmpty(t) ==
    /\ CanRun(t)
    /\ pc[t] = "upload_start"
    /\ sessionOpen' = Set(sessionOpen, t, TRUE)
    /\ file_size' = Set(file_size, t, stagedSize[t])
    /\ cursor' = Set(cursor, t, 0)
    /\ upload_attempts' = Set(upload_attempts, t, 0)
    /\ response' = Set(response, t, "none")
    /\ IF stagedSize[t] = 0
       THEN UploadRaise(t, Exc("ValueError"))
       ELSE /\ pc' = Set(pc, t, "next_chunk")
            /\ loopOwner' = t
            /\ UNCHANGED <<exc, pending, outcome, failedFrom>>
    /\ UNCHANGED <<envVars, diskVars, accepted, pushes, chunkFails,
                   transFails, stalls, pushOffset, lastStatus, permFailed,
                   linkOK, removeFailed, msgVars, escaped, sizeDeclared,
                   drained, linkFails, linkStatus, reportedSize, reportText, reportWords,
                   cancelRequested, pushedAfterCancel, waited, spin, tracing, calls>>

\* file_size = os.path.getsize(file_path); MediaFileUpload(...); the create
\* request is built.  From here to the return or raise of
\* upload_chunked_file the handler does not await.
UploadStart(t) ==
    /\ UNCHANGED <<sizeDeclared, drained, linkFails, linkStatus,
                   reportedSize, reportText, reportWords, cancelRequested,
                   pushedAfterCancel, waited, spin, tracing, calls>>
    /\ UNCHANGED escaped
    /\ CanRun(t)
    /\ pc[t] = "upload_start"
    /\ loopOwner' = t
    /\ sessionOpen' = Set(sessionOpen, t, TRUE)
    /\ file_size' = Set(file_size, t, stagedSize[t])
    /\ cursor' = Set(cursor, t, 0)
    /\ upload_attempts' = Set(upload_attempts, t, 0)
    /\ response' = Set(response, t, "none")
    /\ pc' = Set(pc, t, "next_chunk")
    /\ UNCHANGED <<envVars, diskVars, accepted, pushes, chunkFails,
                   transFails, stalls, pushOffset, lastStatus, permFailed,
                   linkOK, removeFailed, exc, pending, msgVars, outcome,
                   failedFrom>>

\* What follows a next_chunk call that returned, with the new response `r`
\* and counter `a`: another iteration, or the code after the loop.
AfterChunk(t, r, a) ==
    IF r = "none" /\ LoopContinues(a)
    THEN /\ pc' = Set(pc, t, "next_chunk")
         /\ UNCHANGED <<loopOwner, exc, pending, outcome, failedFrom>>
    ELSE IF RejectsResponse(r)
    THEN UploadRaise(t, Exc("NoResponse"))
    ELSE /\ pc' = Set(pc, t, "permission")
         /\ UNCHANGED <<loopOwner, exc, pending, outcome, failedFrom>>

\* The time the loop waits after failure number a before it pushes again:
\* the except clause counts, logs and falls through to the `while` test;
\* there is no sleep, and next_chunk() is called without num_retries.
BackoffWait(a) == 0

\* status, response = request.next_chunk(): the bytes from the cursor, at
\* most one chunk, are pushed.  The destination confirms k of them (the
\* upload is complete when every byte is confirmed, and the response is then
\* the file resource, possibly an empty one), or the call fails with status
\* s, the destination having kept the chunk (`kept`) or not.
NextChunk(t) ==
    /\ UNCHANGED <<sizeDeclared, drained, sessionOpen, linkFails, linkStatus,
                   reportedSize, reportText, reportWords, cancelRequested, spin, tracing>>
    /\ UNCHANGED escaped
    /\ CanRun(t)
    /\ pc[t] = "next_chunk"
    /\ LET len == ChunkLen(t)
           same == pushOffset[t] = cursor[t]
           fails == IF same THEN chunkFails[t] ELSE 0
       IN
       /\ pushes' = Set(pushes, t, IF same THEN pushes[t] + 1 ELSE 1)
       /\ pushOffset' = Set(pushOffset, t, cursor[t])
       /\ calls' = Logged(t, Push(cursor[t], len))
       /\ pushedAfterCancel' = Set(pushedAfterCancel, t, cancelRequested[t])
       /\ \/ \E k \in 0..len, body \in {"body", "empty"} :
                LET c == Advance(cursor[t], k, len)
                    stalled == k = 0 /\ len > 0
                    r == IF c = file_size[t] THEN body ELSE "none"
                IN
                /\ stalled => stalls[t] < MaxStalls
                /\ cursor' = Set(cursor, t, c)
                /\ accepted' = Set(accepted, t, accepted[t] + k)
                /\ response' = Set(response, t, r)
                /\ stalls' = Set(stalls, t,
                                 IF stalled THEN stalls[t] + 1 ELSE stalls[t])
                /\ lastStatus' = Set(lastStatus, t, 200)
                /\ chunkFails' = Set(chunkFails, t, fails)
                /\ AfterChunk(t, r, upload_attempts[t])
                /\ UNCHANGED <<upload_attempts, transFails, waited>>
          \/ \E s \in FailureStatuses, kept \in BOOLEAN :
                /\ kept => (s \in AmbiguousStatuses /\ len > 0)
                /\ accepted' = Set(accepted, t,
                                   accepted[t] + (IF kept THEN len ELSE 0))
                /\ lastStatus' = Set(lastStatus, t, s)
                /\ chunkFails' = Set(chunkFails, t, fails + 1)
                /\ transFails' = Set(transFails, t, transFails[t] + 1)
                /\ IF IsRetryable(s)
                   THEN LET a == upload_attempts[t] + 1 IN
                        /\ upload_attempts' = Set(upload_attempts, t, a)
                        /\ IF Exhausted(a)
                           THEN /\ UploadRaise(t, HttpError(s))
                                /\ UNCHANGED waited
                           ELSE /\ waited' = Set(waited, t, BackoffWait(a))
                                /\ AfterChunk(t, "none", a)
                   ELSE /\ UploadRaise(t, DriveError(s))
                        /\ UNCHANGED <<upload_attempts, waited>>
                /\ UNCHANGED <<cursor, response, stalls>>
    /\ UNCHANGED <<envVars, diskVars, file_size, permFailed, linkOK,
                   removeFailed, msgVars>>

\* A permission failure is logged and dropped by bot_render, and propagates
\* in bot_render_ram_optimized.
SwallowsPermissionFailure == variant = "render"

\* What permissions().create can raise: a Drive failure, or, with an empty
\* response (file.get('id') is None), the client's TypeError for the
\* missing fileId.
PermissionErrors(t) ==
    IF response[t] = "body" THEN {DriveError(s) : s \in FailureStatuses}
    ELSE {Exc("TypeError")}

\* self.service.permissions().create(fileId=file.get('id'), ...).execute().
CreatePermission(t) ==
    /\ UNCHANGED <<sizeDeclared, drained, sessionOpen, linkFails, linkStatus,
                   reportedSize, reportText, reportWords, cancelRequested,
                   pushedAfterCancel, waited, spin, tracing>>
    /\ UNCHANGED escaped
    /\ CanRun(t)
    /\ pc[t] = "permission"
    /\ calls' = Logged(t, Call("permission"))
    /\ \/ /\ response[t] = "body"
          /\ pc' = Set(pc, t, "get_link")
          /\ UNCHANGED <<loopOwner, permFailed, exc, pending, outcome,
                         failedFrom>>
       \/ \E e \in PermissionErrors(t) :
             /\ permFailed' = Set(permFailed, t, TRUE)
             /\ IF SwallowsPermissionFailure
                THEN /\ pc' = Set(pc, t, "get_link")
                     /\ UNCHANGED <<loopOwner, exc, pending, outcome,
                                    failedFrom>>
                ELSE UploadRaise(t, e)
    /\ UNCHANGED <<envVars, diskVars, file_size, cursor, upload_attempts,
                   response, accepted, pushes, chunkFails, transFails,
                   stalls, pushOffset, lastStatus, linkOK, removeFailed,
                   msgVars>>

\* files().get(...).execute() raised: nothing around it catches, so
\* upload_chunked_file's except clauses raise to the caller.
AfterLinkFailure(t, s) == UploadRaise(t, DriveError(s))

\* self.service.files().get(fileId=file_id, fields='id,webViewLink')
\* .execute(), then the return of the result.
GetLink(t) ==
    /\ UNCHANGED <<sizeDeclared, drained, sessionOpen, reportedSize,
                   reportText, reportWords, cancelRequested, pushedAfterCancel, waited, spin,
                   tracing>>
    /\ UNCHANGED escaped
    /\ CanRun(t)
    /\ pc[t] = "get_link"
    /\ calls' = Logged(t, Call("get"))
    /\ \/ /\ linkOK' = Set(linkOK, t, TRUE)
          /\ linkStatus' = Set(linkStatus, t, 200)
          /\ pc' = Set(pc, t, "edit_ok")
          /\ loopOwner' = 0
          /\ UNCHANGED <<linkFails, exc, pending, outcome, failedFrom>>
       \/ \E s \in FailureStatuses :
             /\ linkStatus' = Set(linkStatus, t, s)
             /\ linkFails' = Set(linkFails, t, linkFails[t] + 1)
             /\ AfterLinkFailure(t, s)
             /\ UNCHANGED linkOK
    /\ UNCHANGED <<envVars, diskVars, file_size, cursor, upload_attempts,
                   response, accepted, pushes, chunkFails, transFails,
                   stalls, pushOffset, lastStatus, permFailed, removeFailed,
                   msgVars>>

\* ----------------------------- _upload_large_file_streaming, continued
\* await processing_msg.edit_text("Upload Successful! ... link")
EditSuccess(t) ==
    /\ UNCHANGED <<sizeDeclared, drained, sessionOpen, linkFails, linkStatus,
                   reportText, reportWords, cancelRequested, pushedAfterCancel, waited, spin,
                   tracing, calls>>
    /\ UNCHANGED escaped
    /\ CanRun(t)
    /\ pc[t] = "edit_ok"
    /\ \E o \in Outcomes(t) :
          CASE o = "ok" -> /\ successMsgs' = Set(successMsgs, t,
                                                 successMsgs[t] + 1)
                           /\ reportedSize' = Set(reportedSize, t,
                                                  file_size[t])
                           /\ outcome' = Set(outcome, t, "success")
                           /\ pc' = Set(pc, t, "finally")
                           /\ UNCHANGED <<exc, pending, failedFrom>>
            [] o = "fail" -> /\ RaiseInTry(t, Exc("TelegramError"))
                             /\ UNCHANGED <<successMsgs, reportedSize>>
            [] o = "cancel" -> /\ CancelInTry(t)
                               /\ UNCHANGED <<successMsgs, reportedSize>>
    /\ UNCHANGED <<envVars, loopOwner, diskVars, uploadVars, removeFailed,
                   failureMsgs>>

\* The words of str(e) the except block looks for.  The messages this
\* program builds itself are fixed: bot_render's 403 wrapper reads
\* "Permission denied. Check your Google Drive API quota and permissions.",
\* its 400 wrapper "Bad request. Check file format and size.", and the
\* no-response exception "Upload failed - no response received".  Any
\* other message is the text of a library or of the server.
MessageWords(e) ==
    CASE e.kind = "PermissionDenied" -> {{"quota", "permission"}}
      [] e.kind \in {"BadRequest", "NoResponse"} -> {{}}
      [] OTHER -> SUBSET {"quota", "permission"}

\* A substitution that looks for "permission" first.
FailureText_PermissionFirst(w) ==
    IF variant = "render"
    THEN IF "permission" \in w THEN "permission"
         ELSE IF "quota" \in w THEN "quota" ELSE "own"
    ELSE "own"

\* error_msg = str(e); bot_render replaces it by the quota text if it
\* contains "quota", else by the permission text if it contains
\* "permission"; bot_render_ram_optimized shows str(e) as it is.
FailureText(w) ==
    IF variant = "render"
    THEN IF "quota" \in w THEN "quota"
         ELSE IF "permission" \in w THEN "permission" ELSE "own"
    ELSE "own"

\* except Exception as e: await processing_msg.edit_text("Upload failed:
\* ...").  If the edit itself raises, that exception leaves the function
\* after `finally`.
ReportFailure(t) ==
    /\ UNCHANGED <<sizeDeclared, drained, sessionOpen, linkFails, linkStatus,
                   reportedSize, cancelRequested, pushedAfterCancel, waited, spin,
                   tracing, calls>>
    /\ UNCHANGED escaped
    /\ CanRun(t)
    /\ pc[t] = "report"
    /\ \E o \in Outcomes(t) :
          CASE o = "ok" -> /\ failureMsgs' = Set(failureMsgs, t,
                                                 failureMsgs[t] + 1)
                           /\ \E w \in MessageWords(exc[t]) :
                                 /\ reportWords' = Set(reportWords, t, w)
                                 /\ reportText' = Set(reportText, t,
                                                      FailureText(w))
                           /\ pc' = Set(pc, t, "finally")
                           /\ UNCHANGED <<exc, pending, outcome, failedFrom>>
            [] o = "fail" -> /\ pending' = Set(pending, t, "exc")
                             /\ exc' = Set(exc, t, Exc("TelegramError"))
                             /\ pc' = Set(pc, t, "finally")
                             /\ UNCHANGED <<failureMsgs, reportText,
                                            reportWords, outcome, failedFrom>>
            [] o = "cancel" -> /\ CancelInTry(t)
                               /\ UNCHANGED <<failureMsgs, reportText,
                                              reportWords>>
    /\ UNCHANGED <<envVars, loopOwner, diskVars, uploadVars, removeFailed,
                   successMsgs>>

\* A removal placed after the try statement instead of in `finally`: it is
\* skipped when an exception or a cancellation is propagating.
MustRemove_NotInFinally(t) ==
    temp_file_path[t] /\ tempExists[t] /\ pending[t] = "none"

\* finally: `if temp_file_path and os.path.exists(temp_file_path)` guards
\* the removal.
MustRemove(t) == temp_file_path[t] /\ tempExists[t]

\* An except block that re-raises after reporting: every failure reaches
\* handle_media's reply as well.
AfterFinally_Reraise(t) ==
    IF pending[t] = "exc" \/ (pending[t] = "none" /\ outcome[t] = "failed")
    THEN "reply_fail" ELSE "done"

\* Where control goes after `finally`: an exception raised by the except
\* block reaches handle_media's `except Exception`; a CancelledError leaves
\* the handler; otherwise the handler returns.
AfterFinally(t) == IF pending[t] = "exc" THEN "reply_fail" ELSE "done"

\* finally: os.remove(temp_file_path), whose failure is logged and dropped.
Cleanup(t) ==
    /\ UNCHANGED <<sizeDeclared, drained, sessionOpen, linkFails, linkStatus,
                   reportedSize, reportText, reportWords, cancelRequested,
                   pushedAfterCancel, waited, spin, tracing, calls>>
    /\ CanRun(t)
    /\ pc[t] = "finally"
    /\ IF MustRemove(t)
       THEN \/ /\ tempExists' = Set(tempExists, t, FALSE)
               /\ UNCHANGED removeFailed
            \/ /\ removeFailed' = Set(removeFailed, t, TRUE)
               /\ UNCHANGED tempExists
       ELSE UNCHANGED <<tempExists, removeFailed>>
    /\ pc' = Set(pc, t, AfterFinally(t))
    /\ escaped' = Set(escaped, t, IF pending[t] = "cancel" THEN "cancel"
                                  ELSE escaped[t])
    /\ UNCHANGED <<envVars, loopOwner, temp_file_path, stagedSize,
                   uploadVars, exc, pending, msgVars, outcome, failedFrom>>

\* handle_media: except Exception as e:
\*     await update.message.reply_text("Upload failed: ...")
\* An exception of this reply leaves the handler.
ReplyFailure(t) ==
    /\ UNCHANGED <<sizeDeclared, drained, sessionOpen, linkFails, linkStatus,
                   reportedSize, reportText, reportWords, cancelRequested,
                   pushedAfterCancel, waited, spin, tracing, calls>>
    /\ CanRun(t)
    /\ pc[t] = "reply_fail"
    /\ pc' = Set(pc, t, "done")
    /\ \E o \in AwaitOutcomes :
          CASE o = "ok" -> /\ failureMsgs' = Set(failureMsgs, t,
                                                 failureMsgs[t] + 1)
                           /\ UNCHANGED <<outcome, escaped>>
            [] o = "fail" -> /\ escaped' = Set(escaped, t, "exc")
                             /\ UNCHANGED <<failureMsgs, outcome>>
            [] o = "cancel" -> /\ outcome' = Set(outcome, t, "cancelled")
                               /\ escaped' = Set(escaped, t, "cancel")
                               /\ UNCHANGED failureMsgs
    /\ UNCHANGED <<envVars, loopOwner, diskVars, uploadVars, removeFailed,
                   exc, pending, successMsgs, failedFrom>>

\* ------------------------------------------------- the handler's environment
\* The task running the handler is cancelled (task.cancel(), a shutdown of
\* the application) while the handler is inside upload_chunked_file.  That
\* call is synchronous: CancelledError can only be raised at an await, so
\* the request stays pending and the upload goes on.
RequestCancel(t) ==
    /\ loopOwner = t
    /\ ~cancelRequested[t]
    /\ cancelRequested' = Set(cancelRequested, t, TRUE)
    /\ UNCHANGED <<envVars, loopOwner, pc, diskVars, uploadVars, removeFailed,
                   exc, pending, msgVars, outcome, escaped, failedFrom,
                   sizeDeclared, drained, sessionOpen, linkFails, linkStatus,
                   reportedSize, reportText, reportWords, pushedAfterCancel, waited, spin,
                   tracing, calls>>

\* request.next_chunk() answered once more with no newly confirmed byte,
\* when the stall counter of the model is full: the loop's state is what it
\* was, no counter of the program moved, and the `while` goes round again.
\* `spin` makes the iteration a step of the model.
StalledPush(t) ==
    /\ CanRun(t)
    /\ pc[t] = "next_chunk"
    /\ ChunkLen(t) > 0
    /\ stalls[t] = MaxStalls
    /\ pushOffset[t] = cursor[t]
    /\ lastStatus[t] = 200
    /\ spin' = Set(spin, t, 1 - spin[t])
    /\ calls' = Logged(t, Push(cursor[t], ChunkLen(t)))
    /\ AfterChunk(t, "none", upload_attempts[t])
    /\ UNCHANGED <<envVars, diskVars, uploadVars, removeFailed, msgVars,
                   escaped, sizeDeclared, drained, sessionOpen, linkFails,
                   linkStatus, reportedSize, reportText, reportWords, cancelRequested,
                   pushedAfterCancel, waited, tracing>>

\* ------------------------------------------------------------------ Next
Next ==
    \E t \in Transfers :
       \/ HandleMedia(t)
       \/ GetFile(t)
       \/ CreateTemp(t)
       \/ EditDownloading(t)
       \/ Download(t)
       \/ EditUploading(t)
       \/ UploadStart(t)
       \/ NextChunk(t)
       \/ CreatePermission(t)
       \/ GetLink(t)
       \/ EditSuccess(t)
       \/ ReportFailure(t)
       \/ Cleanup(t)
       \/ ReplyFailure(t)

Spec == Init /\ [][Next]_vars

\* The same handlers, with cancellations requested during the upload.
NextCancel ==
    \/ Next
    \/ \E t \in Transfers : RequestCancel(t)

SpecCancel == Init /\ [][NextCancel]_vars

\* The exceptions that come from outside the program: Telegram, the disk,
\* the network, Drive (raw or wrapped by bot_render's upload_chunked_file).
EnvErrorKinds == {"TelegramError", "OSError", "TransportError", "HttpError",
                  "ApiError", "PermissionDenied", "BadRequest"}

\* Nothing outside the program has failed for handler t: no call raised,
\* no cancellation, the update declares its size, Drive answered the last
\* push with the file resource.  Exceptions the program raises itself are
\* not excluded.
Quiet(t) ==
    /\ exc[t].kind \notin EnvErrorKinds
    /\ outcome[t] # "cancelled"
    /\ escaped[t] = "none"
    /\ sizeDeclared[t] # "unknown"
    /\ drained[t] \in {"no", "ok"}
    /\ transFails[t] = 0
    /\ response[t] # "empty"
    /\ ~permFailed[t]
    /\ ~removeFailed[t]
    /\ linkFails[t] = 0

\* The destination confirmed every byte of the push.
ConfirmedInFull(t) ==
    /\ lastStatus'[t] = 200
    /\ cursor'[t] = cursor[t] + ChunkLen(t)

\* The handlers in an environment where nothing fails and every push is
\* confirmed in full, the Drive calls recorded.
NextClean ==
    \E t \in Transfers :
       \/ HandleMedia(t) /\ Quiet(t)'
       \/ GetFile(t) /\ Quiet(t)'
       \/ CreateTemp(t) /\ Quiet(t)'
       \/ EditDownloading(t) /\ Quiet(t)'
       \/ Download(t) /\ Quiet(t)'
       \/ EditUploading(t) /\ Quiet(t)'
       \/ UploadStart(t) /\ Quiet(t)'
       \/ NextChunk(t) /\ Quiet(t)' /\ ConfirmedInFull(t)
       \/ CreatePermission(t) /\ Quiet(t)'
       \/ GetLink(t) /\ Quiet(t)'
       \/ EditSuccess(t) /\ Quiet(t)'
       \/ Cleanup(t) /\ Quiet(t)'

SpecClean == InitTraced /\ [][NextClean]_vars

\* The handlers in an environment where no call raises, but the destination
\* may confirm any part of a push, or none of it, any number of times.
NextLive ==
    \E t \in Transfers :
       \/ HandleMedia(t) /\ Quiet(t)'
       \/ GetFile(t) /\ Quiet(t)'
       \/ CreateTemp(t) /\ Quiet(t)'
       \/ EditDownloading(t) /\ Quiet(t)'
       \/ Download(t) /\ Quiet(t)'
       \/ EditUploading(t) /\ Quiet(t)'
       \/ UploadStart(t) /\ Quiet(t)'
       \/ NextChunk(t) /\ Quiet(t)'
       \/ StalledPush(t)
       \/ CreatePermission(t) /\ Quiet(t)'
       \/ GetLink(t) /\ Quiet(t)'
       \/ EditSuccess(t) /\ Quiet(t)'
       \/ Cleanup(t) /\ Quiet(t)'

\* Every call returns or raises: a handler that can take a step takes one.
SpecLive == Init /\ [][NextLive]_vars /\ WF_vars(NextLive)

\* Two media messages arrive, and each gets its handler.  How the library
\* schedules handlers is not in this program; the model lets a handler run
\* whenever another one waits at an await, the most interleaving an event
\* loop allows.
InitTwo == StartWith({1, 2}) /\ tracing = FALSE

\* The failures Drive shows in this environment: one status that
\* bot_render retries and one that neither build retries.
SampleStatuses == {503, 403}

\* Telegram and the disk do not fail for handler t.  A push may fail with
\* one of SampleStatuses, the destination not having kept the chunk; the
\* link lookup may fail with 503; the permission call returns; the text of
\* a Drive error holds neither "quota" nor "permission" unless the program
\* put them there.
Calm(t) ==
    /\ exc[t].kind \notin {"TelegramError", "OSError"}
    /\ outcome[t] # "cancelled"
    /\ escaped[t] = "none"
    /\ sizeDeclared[t] # "unknown"
    /\ drained[t] \in {"no", "ok"}
    /\ ~removeFailed[t]
    /\ lastStatus[t] \in {-1, 200} \cup SampleStatuses
    /\ linkStatus[t] \in {-1, 200, 503}
    /\ accepted[t] = cursor[t]
    /\ ~permFailed[t]
    /\ reportWords[t] \in {{}, {"quota", "permission"}}

\* The push failed, or the destination confirmed every byte of it.
FailedOrConfirmedInFull(t) ==
    lastStatus'[t] = 200 => cursor'[t] = cursor[t] + ChunkLen(t)

\* The handlers of both updates, in an environment where only Drive calls
\* fail.
NextTwo ==
    \E t \in Transfers :
       \/ HandleMedia(t) /\ Calm(t)'
       \/ GetFile(t) /\ Calm(t)'
       \/ CreateTemp(t) /\ Calm(t)'
       \/ EditDownloading(t) /\ Calm(t)'
       \/ Download(t) /\ Calm(t)'
       \/ EditUploading(t) /\ Calm(t)'
       \/ UploadStart(t) /\ Calm(t)'
       \/ NextChunk(t) /\ Calm(t)' /\ FailedOrConfirmedInFull(t)
       \/ CreatePermission(t) /\ Calm(t)'
       \/ GetLink(t) /\ Calm(t)'
       \/ EditSuccess(t) /\ Calm(t)'
       \/ ReportFailure(t) /\ Calm(t)'
       \/ Cleanup(t) /\ Calm(t)'

SpecTwo == InitTwo /\ [][NextTwo]_vars

\* ------------------------------------------------------------- type check
TypeOK ==
    /\ variant \in Variants
    /\ requests \subseteq Transfers
    /\ loopOwner \in Transfers \cup {0}
    /\ \A t \in Transfers :
          /\ cursor[t] \in 0..MaxSize
          /\ file_size[t] \in 0..MaxSize
          /\ upload_attempts[t] \in 0..max_attempts
          /\ response[t] \in {"none", "body", "empty"}
          /\ pending[t] \in {"none", "exc", "cancel"}
          /\ escaped[t] \in {"none", "exc", "cancel"}
          /\ outcome[t] \in {"none", "success", "failed", "cancelled"}

\* ================================================================ claims
EndPcs == {"report", "finally", "reply_fail", "done"}
Msgs(t) == successMsgs[t] + failureMsgs[t]

\* The design's failure classes (spec 4.4).
SpecTransient == {429, 500, 502, 503, 504, TransportError}
PermanentStatuses == {400, 401, 403}

\* The upload ended because a push failed with status lastStatus[t].
PushRaised(t) ==
    /\ failedFrom[t] = "Uploading"
    /\ lastStatus[t] \in FailureStatuses
    /\ pc[t] \in EndPcs

C2_PerChunkRetryBudget ==
    \A t \in Transfers :
       (PushRaised(t) /\ lastStatus[t] \in RetryStatuses)
          => chunkFails[t] >= RetryCeiling

C4_PermanentNotRetried ==
    \A t \in Transfers :
       lastStatus[t] \in PermanentStatuses
          => /\ pc[t] \in EndPcs
             /\ Phase(t) = "Failed"
             /\ failedFrom[t] = "Uploading"
             /\ successMsgs[t] = 0
             /\ linkOK[t] = FALSE

\* A 403 on a later chunk, after an earlier retry, ended the transfer and
\* was reported.
C4_Witness ==
    \E t \in Transfers :
       /\ lastStatus[t] = 403
       /\ cursor[t] > 0
       /\ transFails[t] > 1
       /\ failureMsgs[t] = 1
       /\ pc[t] = "done"

\* C5: a push failure that is a server overload, a rate limit (429) or a
\* 5xx / transport error is transient and retried: the upload never ends
\* on the first such failure.
C5_TransientRetried ==
    \A t \in Transfers :
       (PushRaised(t) /\ lastStatus[t] \in SpecTransient)
          => transFails[t] > 1

\* C6: the resume cursor never decreases and never exceeds the staged
\* file's byte count, it advances only by what the destination confirmed in
\* answer to the push just made, and when upload_chunked_file returns
\* successfully it equals the staged file size.
C6_CursorBounds ==
    \A t \in Transfers :
       /\ cursor[t] >= 0
       /\ cursor[t] <= stagedSize[t]
       /\ cursor[t] <= accepted[t]
       /\ linkOK[t] => cursor[t] = stagedSize[t]

C6_CursorStep ==
    \A t \in Transfers :
       /\ cursor'[t] >= cursor[t]
       /\ cursor'[t] > cursor[t]
             => /\ lastStatus'[t] = 200
                /\ pushes'[t] >= 1
                /\ accepted'[t] - accepted[t] = cursor'[t] - cursor[t]

C7_NoDoubleCount ==
    \A t \in Transfers : accepted[t] <= stagedSize[t]

\* C8, as stated: every media request delivers exactly one terminal
\* message, the success message or a single failure message, never both
\* and never none.
C8_ExactlyOneOutcome ==
    \A t \in Transfers : pc[t] = "done" => Msgs(t) = 1

\* C8, amended: a media request never delivers more than one terminal
\* message (never a success and a failure, never two failures); when
\* handle_media returns normally it has delivered exactly one, and when an
\* exception leaves it (its own failure reply raised, or the task was
\* cancelled) it has delivered none.
C8_OneOutcomeUnlessEscaped ==
    \A t \in Transfers :
       /\ Msgs(t) <= 1
       /\ pc[t] = "done" => (Msgs(t) = 1 <=> escaped[t] = "none")
       /\ successMsgs[t] = 1 => outcome[t] = "success"

\* A request that went through chunk retries and a failed success edit and
\* ended with one failure message.
C8_Witness ==
    \E t \in Transfers :
       /\ pc[t] = "done"
       /\ transFails[t] = 2
       /\ linkOK[t]
       /\ successMsgs[t] = 0
       /\ failureMsgs[t] = 1

\* C9: no failure of a destination call of the upload or the finalization,
\* and no failure of removing the staged file, is dropped while the
\* transfer reports success.
C9_NoFailureDropped ==
    \A t \in Transfers :
       outcome[t] = "success" => (~permFailed[t] /\ ~removeFailed[t])

\* C10: a transfer moves through Idle, Staging, Downloading, Uploading,
\* Finalizing and then Completed or Failed, in that order: a phase starts
\* only when the previous one has finished successfully, none is skipped or
\* revisited, Completed and Failed are terminal, and Failed can follow
\* every other phase.
PhaseSteps ==
    {<<"Idle", "Staging">>, <<"Staging", "Downloading">>,
     <<"Downloading", "Uploading">>, <<"Uploading", "Finalizing">>,
     <<"Finalizing", "Completed">>}
       \cup {<<p, "Failed">> : p \in {"Idle", "Staging", "Downloading",
                                      "Uploading", "Finalizing"}}

C10_PhaseStep ==
    \A t \in Transfers :
       \/ Phase(t)' = Phase(t)
       \/ <<Phase(t), Phase(t)'>> \in PhaseSteps

C10_PhaseAchieved ==
    \A t \in Transfers :
       /\ Phase(t) \in {"Downloading", "Uploading", "Finalizing"}
             => (temp_file_path[t] /\ tempExists[t])
       /\ Phase(t) = "Finalizing"
             => /\ cursor[t] = stagedSize[t]
                /\ file_size[t] = stagedSize[t]
                /\ response[t] # "none"
       /\ Phase(t) = "Completed" => (linkOK[t] /\ successMsgs[t] = 1)
       /\ Phase(t) = "Failed" => failedFrom[t] # "none"
       /\ failedFrom[t] \in {"none", "Idle", "Staging", "Downloading",
                             "Uploading", "Finalizing"}

C11_StagingFailureEndsTransfer ==
    \A t \in Transfers :
       (failedFrom[t] = "Staging" \/ drained[t] = "failed") =>
          /\ Phase(t) = "Failed"
          /\ pc[t] \in EndPcs
          /\ ~sessionOpen[t]
          /\ pushOffset[t] = -1
          /\ lastStatus[t] = -1
          /\ accepted[t] = 0

\* A download that failed, reported to the user, the handler ended.
C11_Witness ==
    \E t \in Transfers :
       /\ drained[t] = "failed"
       /\ failedFrom[t] = "Downloading"
       /\ pc[t] = "done"
       /\ failureMsgs[t] = 1

\* C12: when the transfer is cancelled while its upload is in progress, no
\* chunk push is issued after the cancellation, and when the handler has
\* ended the transfer is cancelled (CancelledError left the handler, no
\* success, no other error) and no temporary file is left on disk.
C12_CancelStopsUpload ==
    \A t \in Transfers :
       cancelRequested[t] =>
          /\ ~pushedAfterCancel[t]
          /\ pc[t] = "done" => /\ outcome[t] = "cancelled"
                               /\ escaped[t] = "cancel"
                               /\ successMsgs[t] = 0
                               /\ ~tempExists[t]

\* The pushes of an undisturbed upload of N bytes, as the design counts
\* them: one per chunk of ChunkSize bytes from offset `off` on, the last one
\* shorter if N is no multiple of ChunkSize; none if nothing is left.
RECURSIVE PushesFrom(_, _)
PushesFrom(off, N) ==
    IF off >= N THEN <<>>
    ELSE <<Push(off, Min(ChunkSize, N - off))>> \o PushesFrom(off + ChunkSize, N)

\* The calls that follow the last push: permissions().create, then the one
\* files().get that returns the link.
FinalizeCalls == <<Call("permission"), Call("get")>>

IsPrefix(s, q) == Len(s) <= Len(q) /\ SubSeq(q, 1, Len(s)) = s

Uploaded(t) == pc[t] \in {"edit_ok", "finally", "done"} /\ linkOK[t]

\* C13, as stated: with no failures, a staged file of N bytes produces
\* exactly ceil(N/C) pushes, each of C bytes except a shorter last one, at
\* increasing offsets, followed by exactly one finalize call after the last
\* push.
C13_PushSequence ==
    \A t \in Transfers :
       Uploaded(t) =>
          calls[t] = PushesFrom(0, stagedSize[t]) \o FinalizeCalls

\* The pushes the code makes: the loop body runs before any test, so an
\* empty file still gets one push, of length zero.
ExpectedPushes(N) == IF N = 0 THEN <<Push(0, 0)>> ELSE PushesFrom(0, N)

\* C13, amended: with no failure and every push confirmed in full, a staged
\* file of N > 0 bytes produces exactly ceil(N/C) pushes, each of C bytes
\* except a shorter last one, at increasing offsets, and a file of 0 bytes
\* one push of length zero; the pushes are followed by the permission call
\* and exactly one link lookup, and nothing else.
C13_PushSequenceOrOneEmptyPush ==
    \A t \in Transfers :
       sessionOpen[t] =>
          LET expected == ExpectedPushes(stagedSize[t]) \o FinalizeCalls IN
          /\ IsPrefix(calls[t], expected)
          /\ Uploaded(t) => calls[t] = expected

\* 20 MiB: pushes of 8, 8 and 4 MiB, then the finalizing calls, and success.
C13_Witness ==
    \E t \in Transfers :
       /\ pc[t] = "done"
       /\ outcome[t] = "success"
       /\ stagedSize[t] = 5
       /\ calls[t] = <<Push(0, 2), Push(2, 2), Push(4, 1)>> \o FinalizeCalls

\* C14: a transfer of an empty (0-byte) source does not fail: it makes at
\* most one push, of length zero, then the finalizing calls, and ends with
\* 'Upload Successful' for a size of 0 rather than with an error.
C14_EmptySourceSucceeds ==
    \A t \in Transfers :
       (drained[t] = "ok" /\ stagedSize[t] = 0) =>
          /\ Phase(t) # "Failed"
          /\ IsPrefix(calls[t], <<Push(0, 0)>> \o FinalizeCalls)
          /\ pc[t] = "done" => /\ outcome[t] = "success"
                               /\ successMsgs[t] = 1
                               /\ failureMsgs[t] = 0
                               /\ reportedSize[t] = 0
                               /\ calls[t] = <<Push(0, 0)>> \o FinalizeCalls

\* An empty file uploaded and reported as a success.
C14_Witness ==
    \E t \in Transfers :
       /\ drained[t] = "ok"
       /\ stagedSize[t] = 0
       /\ pc[t] = "done"
       /\ outcome[t] = "success"
       /\ pushes[t] = 1

\* C15: the link lookup of the finalizing step is retried on a transient
\* failure, so a single transient failure of the lookup does not make the
\* transfer end Failed.
C15_LinkLookupRetried ==
    \A t \in Transfers :
       (linkFails[t] = 1 /\ linkStatus[t] \in SpecTransient) =>
          Phase(t) # "Failed"

\* C16: between two consecutive attempts of the same chunk push after a
\* transient failure the handler waits, and the wait grows from one retry
\* to the next; a retry is never issued immediately.
C16_BackoffBeforeRetry ==
    \A t \in Transfers :
       (pc[t] = "next_chunk" /\ lastStatus[t] \in FailureStatuses) =>
          /\ waited[t] > 0
          /\ upload_attempts[t] >= 2 =>
                waited[t] > BackoffWait(upload_attempts[t] - 1)

\* C17: the chunk-upload loop terminates: provided every push call returns
\* or raises, a handler that is in the loop eventually leaves it (the
\* upload returned or raised), also when the destination repeatedly
\* confirms fewer bytes than were sent, or no new bytes, without an error.
C17_UploadLoopTerminates ==
    \A t \in Transfers : (pc[t] = "next_chunk") ~> (pc[t] # "next_chunk")

\* C18: a media request whose declared size is unknown (no file_size) is
\* not rejected before the transfer starts: it does not fail in handle_media
\* ahead of staging on account of the missing size.
C18_UnknownSizeStillTransferred ==
    \A t \in Transfers :
       sizeDeclared[t] = "unknown" =>
          ~(failedFrom[t] = "Idle" /\ exc[t].kind = "TypeError")

\* C19: 'Upload Successful' is issued only on a path where the download
\* finished, the last chunk push returned a non-empty response with every
\* staged byte confirmed, and the link lookup returned a link; it is never
\* issued after the download or the link lookup failed, it is issued once,
\* and the size it reports is the size of the staged file.
C19_SuccessOnlyAfterAllSteps ==
    \A t \in Transfers :
       successMsgs[t] >= 1 =>
          /\ successMsgs[t] = 1
          /\ drained[t] = "ok"
          /\ lastStatus[t] = 200
          /\ response[t] = "body"
          /\ cursor[t] = stagedSize[t]
          /\ linkOK[t]
          /\ linkStatus[t] = 200
          /\ linkFails[t] = 0
          /\ reportedSize[t] = stagedSize[t]

\* A success reported for a 20 MiB file after a push had to be retried.
C19_Witness ==
    \E t \in Transfers :
       /\ successMsgs[t] = 1
       /\ pc[t] = "done"
       /\ transFails[t] >= 1
       /\ stagedSize[t] = 5
       /\ reportedSize[t] = 5

\* The failure report of bot_render's except block was delivered for the
\* exception exc[t].
Reported(t) == variant = "render" /\ reportText[t] # "none"

\* C20, as stated: in bot_render every upload that failed with HTTP 403 is
\* reported with the quota-exceeded text and never with the
\* permission-denied text, while HTTP 400 and the other statuses are
\* reported with their own wrapped message unchanged.
C20_FailureTextByStatus ==
    \A t \in Transfers :
       Reported(t) =>
          /\ exc[t].kind = "PermissionDenied" => reportText[t] = "quota"
          /\ exc[t].kind \in {"BadRequest", "ApiError"} =>
                reportText[t] = "own"

\* C20, amended: in bot_render every upload that failed with HTTP 403 is
\* reported with the quota-exceeded text and never with the
\* permission-denied text, and HTTP 400 with its own wrapped message
\* unchanged; for any other status the wrapped message embeds the text of
\* Drive's error, and it is reported unchanged only if that text contains
\* neither "quota" nor "permission": with "quota" it is replaced by the
\* quota text, else with "permission" by the permission text.
C20_FailureTextByStatusAndWords ==
    \A t \in Transfers :
       Reported(t) =>
          /\ exc[t].kind = "PermissionDenied" => reportText[t] = "quota"
          /\ exc[t].kind = "BadRequest" => reportText[t] = "own"
          /\ exc[t].kind = "ApiError" =>
                reportText[t] = (IF "quota" \in reportWords[t] THEN "quota"
                                 ELSE IF "permission" \in reportWords[t]
                                      THEN "permission" ELSE "own")

\* An upload that failed with HTTP 403 and was reported with the quota text.
C20_Witness ==
    \E t \in Transfers :
       /\ Reported(t)
       /\ exc[t].kind = "PermissionDenied"
       /\ failedFrom[t] = "Uploading"
       /\ lastStatus[t] = 403
       /\ reportText[t] = "quota"
       /\ pc[t] = "done"

\* Handler t is inside upload_chunked_file: between the construction of the
\* upload request (before the first push) and the return or raise.
InUpload(t) == pc[t] \in {"next_chunk", "permission", "get_link"}

\* What another handler would change by taking a step: its position, its
\* download, its pushes, its messages.
Footprint(u) == <<pc[u], drained[u], stagedSize[u], tempExists[u],
                  pushes[u], pushOffset[u], lastStatus[u], cursor[u],
                  sessionOpen[u], successMsgs[u], failureMsgs[u],
                  outcome[u]>>

\* A step taken while handler t is inside upload_chunked_file leaves every
\* other handler where it was.
C21_Step ==
    \A t, u \in Transfers :
       (t # u /\ InUpload(t)) => Footprint(u)' = Footprint(u)

\* C21: the upload-and-finalize phase of one transfer is one atomic step
\* with respect to the other handlers: while a transfer is between its
\* first chunk push and the return or raise of upload_chunked_file, no other
\* transfer downloads, pushes a chunk or delivers a message.
C21_UploadAtomic == [][C21_Step]_vars

\* The chunk pushes of two transfers never interleave: no two handlers are
\* inside upload_chunked_file together.
C21_OneUploadAtATime ==
    \A t, u \in Transfers : (InUpload(t) /\ InUpload(u)) => t = u

\* A transfer has pushed its first chunk and is still uploading, retrying
\* after a failed push, while the other handler waits at an await it has
\* reached, its file downloaded and its own upload not started.
C21_Witness ==
    \E t, u \in Transfers :
       /\ t # u
       /\ pc[t] = "next_chunk"
       /\ cursor[t] > 0
       /\ lastStatus[t] = 503
       /\ pc[u] = "upload_start"
       /\ drained[u] = "ok"
       /\ ~sessionOpen[u]

====
